---- MODULE Spec2Model ----
(***************************************************************************)
(* A model of src/mobius_strip.py: the MobiusStrip object, its constructor *)
(* (parameter grid, mesh, surface area, edge length) and plot().           *)
(*                                                                         *)
(* Numbers.  The program computes in binary floating point; the model      *)
(* computes in fixed point with sign-symmetric round-to-nearest, so every  *)
(* equality below is an equality up to the rounding of the arithmetic.     *)
(*   - an angle is a whole number of quanta of pi/Pi radians (np.pi is Pi  *)
(*     quanta), so 0, pi and 2*pi are exact;                               *)
(*   - a length (R, w, v, x, y, z, a derivative, a distance) is a whole    *)
(*     number of quanta of 1/Unit;                                         *)
(*   - a sine or cosine is a whole number of quanta of 1/TrigOne;          *)
(*   - the surface area, a product length * angle * length, is in quanta   *)
(*     of (pi/Pi) / Unit^2.                                                *)
(* Arrays are sequences: Python's a[k] is a[k+1] here.                     *)
(***************************************************************************)
EXTENDS Integers, Sequences, FiniteSets, TLC

\* ------------------------------------------------------------ bounds
\* The largest resolution n the constructor is called with.
MaxN == 6
\* The largest number of plot() calls after construction.
MaxPlots == 2

\* ------------------------------------------------------------ numbers
\* np.pi, in angle quanta.
Pi == 60
\* 1.0 as a length, in length quanta.
Unit == 2 * Pi

\* a / b rounded to the nearest quantum, halves away from zero (b > 0):
\* like IEEE rounding, it commutes with negation.
RDiv(a, b) == IF a >= 0 THEN (2 * a + b) \div (2 * b)
              ELSE -((2 * (-a) + b) \div (2 * b))

\* sin(k * pi/Pi) for k = 0 .. Pi/2, in quanta of 1/10000.
SinQuarter == << 0, 523, 1045, 1564, 2079, 2588, 3090, 3584, 4067, 4540,
                 5000, 5446, 5878, 6293, 6691, 7071, 7431, 7771, 8090, 8387,
                 8660, 8910, 9135, 9336, 9511, 9659, 9781, 9877, 9945, 9986,
                 10000 >>

\* 1.0 as a sine or cosine.
TrigOne == SinQuarter[Len(SinQuarter)]

\* np.sin of an angle a (any whole number of quanta), by range reduction.
Sin(a) == LET m == a % (2 * Pi)
              h == IF m >= Pi THEN m - Pi ELSE m
              q == IF 2 * h > Pi THEN Pi - h ELSE h
          IN  IF m >= Pi THEN -SinQuarter[q + 1] ELSE SinQuarter[q + 1]

\* np.cos of an angle a.
Cos(a) == Sin(a + Pi \div 2)

\* a length (or a cosine) times a sine or cosine.
Mul(a, t) == RDiv(a * t, TrigOne)

RECURSIVE Newton(_, _)
Newton(x, g) == LET h == (g + x \div g) \div 2
                IN  IF h >= g THEN g ELSE Newton(x, h)

\* np.sqrt, rounded to the nearest quantum.
Sqrt(x) == IF x <= 0 THEN 0
           ELSE LET r == Newton(x, x)
                IN  IF x - r * r > r THEN r + 1 ELSE r

RECURSIVE SeqSum(_)
\* np.sum of a one-dimensional array.
SeqSum(s) == IF s = <<>> THEN 0 ELSE Head(s) + SeqSum(Tail(s))

\* np.sum of a two-dimensional array: every cell, each once.
GridSum(g) == SeqSum([i \in 1..Len(g) |-> SeqSum(g[i])])

\* ------------------------------------------------------------ numpy
\* linspace written as np.arange(start, stop, step): the samples stop short
\* of stop, one fewer of them.
linspace_arange(start, stop, num) ==
    IF num <= 1 THEN <<>>
    ELSE LET step == RDiv(stop - start, num - 1)
         IN  [i \in 1..(num - 1) |-> start + (i - 1) * step]

\* linspace with endpoint=False: num samples of step (stop - start)/num,
\* stop not among them.
linspace_noend(start, stop, num) ==
    IF num <= 0 THEN <<>>
    ELSE LET step == RDiv(stop - start, num)
         IN  [i \in 1..num |-> start + (i - 1) * step]

\* np.linspace(start, stop, num), endpoint included: num samples
\* start + i*step with step = (stop - start)/(num - 1), the last one set to
\* stop.  (num < 0 raises ValueError: see MakeGrid.)
linspace(start, stop, num) ==
    IF num <= 0 THEN <<>>
    ELSE IF num = 1 THEN <<start>>
    ELSE LET step == RDiv(stop - start, num - 1)
         IN  [i \in 1..num |-> IF i = num THEN stop ELSE start + (i - 1) * step]

\* meshgrid with indexing 'ij': the first grid repeats a down every column.
meshgrid_ij(a, b) ==
    << [i \in 1..Len(a) |-> [j \in 1..Len(b) |-> a[i]]],
       [i \in 1..Len(a) |-> [j \in 1..Len(b) |-> b[j]]] >>

\* np.meshgrid(a, b), indexing 'xy': two Len(b) x Len(a) grids,
\* the first repeating a along every row, the second b down every column.
meshgrid(a, b) ==
    << [i \in 1..Len(b) |-> [j \in 1..Len(a) |-> a[j]]],
       [i \in 1..Len(b) |-> [j \in 1..Len(a) |-> b[i]]] >>

\* diff that also takes the difference from the last element back to the
\* first (a closing segment).
diff_closed(a) == IF Len(a) <= 1 THEN <<>>
                  ELSE [k \in 1..Len(a) |-> a[(k % Len(a)) + 1] - a[k]]

\* np.diff of a one-dimensional array: a[k+1] - a[k], one fewer element.
diff(a) == IF Len(a) <= 1 THEN <<>>
           ELSE [k \in 1..(Len(a) - 1) |-> a[k + 1] - a[k]]

\* ------------------------------------------------------------ mapping
\* The half angle forgotten: u where u/2 is meant.
HalfAngle_whole(u) == u

\* u/2 for an angle u.
HalfAngle(u) == RDiv(u, 2)

\* The mapping of an untwisted band: v * cos(u), v * sin(u) where the
\* half-twist has v * cos(u/2), v * sin(u/2).
parametric_equations_flat(R, u, v) ==
    << Mul(R + Mul(v, Cos(u)), Cos(u)),
       Mul(R + Mul(v, Cos(u)), Sin(u)),
       Mul(v, Sin(u)) >>

\* parametric_equations at one (u, v): the point <<x, y, z>>.
parametric_equations(R, u, v) ==
    << Mul(R + Mul(v, Cos(HalfAngle(u))), Cos(u)),
       Mul(R + Mul(v, Cos(HalfAngle(u))), Sin(u)),
       Mul(v, Sin(HalfAngle(u))) >>

\* parametric_equations on two grids of the same shape, element-wise:
\* the triple <<x, y, z>> of grids.
OnGrid(R, U, V) ==
    [c \in 1..3 |->
        [i \in 1..Len(U) |->
            [j \in 1..Len(U[i]) |-> parametric_equations(R, U[i][j], V[i][j])[c]]]]

\* parametric_equations on an array u and a scalar v (broadcast):
\* the triple <<x, y, z>> of arrays.
OnCurve(R, u, v) ==
    [c \in 1..3 |-> [j \in 1..Len(u) |-> parametric_equations(R, u[j], v)[c]]]

\* ------------------------------------------------------------ surface area
\* partial_derivatives at one (u, v): << <<du_x, du_y, du_z>>, <<dv_x, dv_y, dv_z>> >>,
\* the du in length quanta, the dv (products of cosines and sines) in
\* quanta of 1/TrigOne.
partial_derivatives(R, u, v) ==
    LET h == HalfAngle(u)
    IN  << << RDiv(Mul(Mul(-v, Sin(h)), Cos(u)), 2) - Mul(R + Mul(v, Cos(h)), Sin(u)),
              RDiv(Mul(Mul(-v, Sin(h)), Sin(u)), 2) + Mul(R + Mul(v, Cos(h)), Cos(u)),
              RDiv(Mul(v, Cos(h)), 2) >>,
           << Mul(Cos(h), Cos(u)),
              Mul(Cos(h), Sin(u)),
              Sin(h) >> >>

\* The cross product du x dv at one (u, v), as the code writes it.
cross_product(R, u, v) ==
    LET d  == partial_derivatives(R, u, v)
        du == d[1]
        dv == d[2]
    IN  << Mul(du[2], dv[3]) - Mul(du[3], dv[2]),
           Mul(du[3], dv[1]) - Mul(du[1], dv[3]),
           Mul(du[1], dv[2]) - Mul(du[2], dv[1]) >>

\* The area element |du x dv| at one (u, v).
area_element(R, u, v) ==
    LET c == cross_product(R, u, v)
    IN  Sqrt(c[1] * c[1] + c[2] * c[2] + c[3] * c[3])

\* The grid of area elements over the grids U, V.
AreaElements(R, U, V) ==
    [i \in 1..Len(U) |-> [j \in 1..Len(U[i]) |-> area_element(R, U[i][j], V[i][j])]]

\* The value compute_surface_area returns for the grids U, V and the
\* spacings du, dv: every area element summed, times du, times dv.
SurfaceArea(R, U, V, du, dv) == GridSum(AreaElements(R, U, V)) * du * dv

\* The bound off by one: the last element taken to be out of range.
InBounds_strict(a, k) == k + 1 < Len(a)

\* Whether Python's a[k] exists (k >= 0); otherwise a[k] raises IndexError.
InBounds(a, k) == k < Len(a)

\* compute_surface_area of the object (when u[1] and v[1] exist).
compute_surface_area(self) ==
    SurfaceArea(self.R, self.U, self.V,
                self.u[2] - self.u[1], self.v[2] - self.v[1])

\* compute_mesh of the object.
compute_mesh(self) == OnGrid(self.R, self.U, self.V)

\* ------------------------------------------------------------ edge length
\* The lengths of the segments between consecutive points of a sampled
\* curve <<x, y, z>>.
segment_lengths(curve) ==
    LET dx == diff(curve[1])
        dy == diff(curve[2])
        dz == diff(curve[3])
    IN  [k \in 1..Len(dx) |-> Sqrt(dx[k] * dx[k] + dy[k] * dy[k] + dz[k] * dz[k])]

\* The values of v the loop of compute_edge_length runs over.
EdgeValues(w) == << RDiv(w, 2), RDiv(-w, 2) >>

\* ------------------------------------------------------------ state
VARIABLES
    pc,          \* where the program is: a line of __init__, "done" or "raised"
    args,        \* the arguments of MobiusStrip(R, w, n)
    self,        \* the object's attributes: a function from the names set so far
    err,         \* the exception raised, "" when none
    edge_length, \* compute_edge_length's accumulator
    vs,          \* the values of v its loop has still to visit
    curves,      \* the curves <<x, y, z>> its loop has sampled, in order
    calls,       \* the compute_* methods called so far, in order
    plots,       \* the number of plot() calls made
    plotted      \* the surfaces <<x, y, z>> plot() has drawn, in order

vars == << pc, args, self, err, edge_length, vs, curves, calls, plots, plotted >>

\* The arguments the constructor is called with.
Rs == { -Unit, 0, Unit, 5 * Unit }
Ws == { -Unit, 0, Unit \div 2, Unit, 2 * Unit }
Ns == -1 .. MaxN

Init ==
    /\ pc = "L15"
    /\ args \in [R : Rs, w : Ws, n : Ns]
    /\ self = <<>>
    /\ err = ""
    /\ edge_length = 0
    /\ vs = <<>>
    /\ curves = <<>>
    /\ calls = <<>>
    /\ plots = 0
    /\ plotted = <<>>

\* __init__, lines 15-17.
SetParams ==
    /\ pc = "L15"
    /\ self' = [R |-> args.R, w |-> args.w, n |-> args.n]
    /\ pc' = "L18"
    /\ UNCHANGED << args, err, edge_length, vs, curves, calls, plots, plotted >>

\* __init__, lines 18-20: the samples and the grid.  np.linspace raises
\* ValueError for a negative number of samples.
MakeGrid ==
    /\ pc = "L18"
    /\ \/ /\ self.n < 0
          /\ pc' = "raised"
          /\ err' = "ValueError"
          /\ UNCHANGED self
       \/ /\ self.n >= 0
          /\ LET u == linspace(0, 2 * Pi, self.n)
                 v == linspace(RDiv(-self.w, 2), RDiv(self.w, 2), self.n)
                 g == meshgrid(u, v)
             IN  self' = self @@ [u |-> u, v |-> v, U |-> g[1], V |-> g[2]]
          /\ pc' = "L21"
          /\ UNCHANGED err
    /\ UNCHANGED << args, edge_length, vs, curves, calls, plots, plotted >>

\* __init__, line 21.
ComputeMesh ==
    /\ pc = "L21"
    /\ calls' = Append(calls, "mesh")
    /\ self' = self @@ [mesh |-> compute_mesh(self)]
    /\ pc' = "L22"
    /\ UNCHANGED << args, err, edge_length, vs, curves, plots, plotted >>

\* __init__, line 22: compute_surface_area, whose u[1] and v[1] raise
\* IndexError when there are fewer than two samples.
ComputeSurfaceArea ==
    /\ pc = "L22"
    /\ calls' = Append(calls, "surface_area")
    /\ \/ /\ ~(InBounds(self.u, 1) /\ InBounds(self.v, 1))
          /\ pc' = "raised"
          /\ err' = "IndexError"
          /\ UNCHANGED self
       \/ /\ InBounds(self.u, 1) /\ InBounds(self.v, 1)
          /\ self' = self @@ [surface_area |-> compute_surface_area(self)]
          /\ pc' = "L23"
          /\ UNCHANGED err
    /\ UNCHANGED << args, edge_length, vs, curves, plots, plotted >>

\* __init__, line 23, entering compute_edge_length: lines 97-98.
EdgeStart ==
    /\ pc = "L23"
    /\ calls' = Append(calls, "edge_length")
    /\ edge_length' = 0
    /\ vs' = EdgeValues(self.w)
    /\ pc' = "L98"
    /\ UNCHANGED << args, self, err, curves, plots, plotted >>

\* One turn of the loop of compute_edge_length: lines 99-105.
EdgeIter ==
    /\ pc = "L98"
    /\ vs # <<>>
    /\ LET curve == OnCurve(self.R, self.u, Head(vs))
       IN  /\ edge_length' = edge_length + SeqSum(segment_lengths(curve))
           /\ curves' = Append(curves, curve)
    /\ vs' = Tail(vs)
    /\ UNCHANGED << pc, args, self, err, calls, plots, plotted >>

\* The loop is over: line 106, and the assignment of line 23.
EdgeReturn ==
    /\ pc = "L98"
    /\ vs = <<>>
    /\ self' = self @@ [edge_length |-> edge_length]
    /\ pc' = "done"
    /\ UNCHANGED << args, err, edge_length, vs, curves, calls, plots, plotted >>

\* plot() recomputing the mesh instead of reading the stored one.
Plot_recompute ==
    /\ pc = "done"
    /\ plots < MaxPlots
    /\ calls' = Append(calls, "mesh")
    /\ plotted' = Append(plotted, compute_mesh(self))
    /\ plots' = plots + 1
    /\ UNCHANGED << pc, args, self, err, edge_length, vs, curves >>

\* plot(): draws the stored mesh.
Plot ==
    /\ pc = "done"
    /\ plots < MaxPlots
    /\ plotted' = Append(plotted, self.mesh)
    /\ plots' = plots + 1
    /\ UNCHANGED << pc, args, self, err, edge_length, vs, curves, calls >>

Next ==
    \/ SetParams
    \/ MakeGrid
    \/ ComputeMesh
    \/ ComputeSurfaceArea
    \/ EdgeStart
    \/ EdgeIter
    \/ EdgeReturn
    \/ Plot

Spec == Init /\ [][Next]_vars

\* ------------------------------------------------------------ claims
\* The constructor has got past line 21 with a resolution of at least 2.
MeshBuilt == "mesh" \in DOMAIN self /\ self.n >= 2

\* C1: for n >= 2 the mesh is exactly three grids x, y, z, each of n rows
\* of n columns.
C1_MeshShape ==
    MeshBuilt =>
        /\ Len(self.mesh) = 3
        /\ \A c \in 1..3 :
              /\ Len(self.mesh[c]) = self.n
              /\ \A i \in 1..Len(self.mesh[c]) : Len(self.mesh[c][i]) = self.n

C1_Witness == MeshBuilt /\ pc = "done" /\ self.n = MaxN

\* The mapping of section 4.1, written out coordinate by coordinate.
MapX(R, u, v) == Mul(R + Mul(v, Cos(RDiv(u, 2))), Cos(u))
MapY(R, u, v) == Mul(R + Mul(v, Cos(RDiv(u, 2))), Sin(u))
MapZ(R, u, v) == Mul(v, Sin(RDiv(u, 2)))

\* s has n samples, the first lo, the last hi, consecutive ones equally far
\* apart.
Uniform(s, n, lo, hi) ==
    /\ Len(s) = n
    /\ s[1] = lo
    /\ s[n] = hi
    /\ \A j \in 1..(n - 1) : s[j + 1] - s[j] = s[2] - s[1]
    /\ (n - 1) * (s[2] - s[1]) = hi - lo

\* C2: for n >= 2, u is n uniform samples from 0 to 2*pi, v is n uniform
\* samples from -w/2 to w/2, the grid holds the pair (u_j, v_i) at row i,
\* column j (so every pair once), and the mesh point there is the mapping
\* of (u_j, v_i).
C2_GridAndMapping ==
    MeshBuilt =>
        /\ Uniform(self.u, self.n, 0, 2 * Pi)
        /\ 2 * self.v[1] = -self.w
        /\ 2 * self.v[self.n] = self.w
        /\ Uniform(self.v, self.n, self.v[1], self.v[self.n])
        /\ Len(self.U) = self.n /\ Len(self.V) = self.n
        /\ \A i \in 1..self.n :
              /\ Len(self.U[i]) = self.n /\ Len(self.V[i]) = self.n
              /\ \A j \in 1..self.n :
                    /\ self.U[i][j] = self.u[j]
                    /\ self.V[i][j] = self.v[i]
                    /\ self.mesh[1][i][j] = MapX(self.R, self.u[j], self.v[i])
                    /\ self.mesh[2][i][j] = MapY(self.R, self.u[j], self.v[i])
                    /\ self.mesh[3][i][j] = MapZ(self.R, self.u[j], self.v[i])

C2_Witness ==
    /\ MeshBuilt /\ self.n = MaxN /\ self.w > 0 /\ self.R > 0
    /\ self.mesh[1][1][2] # self.mesh[1][2][1]

\* The Euclidean distance between two points.
Dist(p, q) ==
    Sqrt((q[1] - p[1]) * (q[1] - p[1]) + (q[2] - p[2]) * (q[2] - p[2])
         + (q[3] - p[3]) * (q[3] - p[3]))

RECURSIVE PolylineFrom(_, _, _, _)
\* The length of the polyline through the points of the curve v = c at the
\* samples u[k], u[k+1], ..., u[Len(u)]: Len(u) - k segments.
PolylineFrom(R, u, c, k) ==
    IF k >= Len(u) THEN 0
    ELSE Dist(<<MapX(R, u[k], c), MapY(R, u[k], c), MapZ(R, u[k], c)>>,
              <<MapX(R, u[k + 1], c), MapY(R, u[k + 1], c), MapZ(R, u[k + 1], c)>>)
         + PolylineFrom(R, u, c, k + 1)

\* L(c): the n - 1 segments of the curve v = c.
L(R, u, c) == PolylineFrom(R, u, c, 1)

\* C3: edge_length is L(+w/2) + L(-w/2), each the sum of the n - 1
\* distances between consecutive points of its own curve: nothing between
\* the curves, no closing segment.
C3_EdgeLength ==
    ("edge_length" \in DOMAIN self /\ self.n >= 2) =>
        self.edge_length = L(self.R, self.u, RDiv(self.w, 2))
                           + L(self.R, self.u, RDiv(-self.w, 2))

C3_Witness ==
    /\ pc = "done" /\ self.n = MaxN /\ self.w > 0 /\ self.R > 0
    /\ self.edge_length > 0

\* The grid g with every entry negated.
NegGrid(g) == [i \in 1..Len(g) |-> [j \in 1..Len(g[i]) |-> -g[i][j]]]

\* The constructor has got past line 22 (which needs n >= 2).
AreaBuilt == "surface_area" \in DOMAIN self

\* C4: the surface area computed on the grid with every v replaced by -v
\* (same u samples, same spacings) is the surface area of the object.
C4_AreaSignFlip ==
    AreaBuilt =>
        SurfaceArea(self.R, self.U, NegGrid(self.V),
                    self.u[2] - self.u[1], self.v[2] - self.v[1])
        = self.surface_area

\* The case where the flip changes the area elements themselves, point by
\* point, and only their sum is kept.
C4_Witness ==
    /\ AreaBuilt /\ self.n = MaxN /\ self.w > 0 /\ self.R > 0
    /\ self.surface_area > 0
    /\ AreaElements(self.R, self.U, NegGrid(self.V))
       # AreaElements(self.R, self.U, self.V)

\* C5 as the spec states it: for every v sample, the points at u = 0 and at
\* u = 2*pi with that same v have the same x, the same y and the same z.
C5_SeamSameV ==
    MeshBuilt =>
        \A i \in 1..self.n :
            parametric_equations(self.R, 0, self.v[i])
            = parametric_equations(self.R, 2 * Pi, self.v[i])

\* C5, amended: the point at (2*pi, v) is the point at (0, -v), namely
\* (R - v, 0, 0), while the point at (0, v) is (R + v, 0, 0); in the mesh,
\* the last column of a row is the first column of that row with v negated.
C5_SeamMirrored ==
    MeshBuilt =>
        \A i \in 1..self.n :
            /\ parametric_equations(self.R, 2 * Pi, self.v[i])
               = parametric_equations(self.R, 0, -self.v[i])
            /\ parametric_equations(self.R, 2 * Pi, self.v[i])
               = << self.R - self.v[i], 0, 0 >>
            /\ parametric_equations(self.R, 0, self.v[i])
               = << self.R + self.v[i], 0, 0 >>
            /\ \A c \in 1..3 :
                  /\ self.mesh[c][i][self.n]
                     = parametric_equations(self.R, 2 * Pi, self.v[i])[c]
                  /\ self.mesh[c][i][1]
                     = parametric_equations(self.R, 0, self.v[i])[c]

C5_Witness ==
    /\ MeshBuilt /\ self.n = MaxN /\ self.w > 0 /\ self.R > 0
    /\ self.mesh[1][1][1] # self.mesh[1][1][self.n]
    /\ self.mesh[1][1][self.n] = self.mesh[1][self.n][1]

\* C6 as the spec states it: no input makes the constructor raise.
C6_NeverRaises == pc # "raised"

\* C6, amended: the constructor raises only for n < 2, and for every n < 2
\* it never gets past line 22 (surface_area is never set); for n >= 2,
\* whatever R and w (zero and negative included), neither line that can
\* raise (18, 22) does, and at the end surface_area and edge_length are
\* numbers.
C6_RaisesOnlyBelowTwo ==
    /\ pc = "raised" => args.n < 2
    /\ args.n < 2 =>
          /\ pc \in {"L15", "L18", "L21", "L22", "raised"}
          /\ "surface_area" \notin DOMAIN self
          /\ "edge_length" \notin DOMAIN self
    /\ (args.n >= 2 /\ pc = "L18") => self.n >= 0
    /\ (args.n >= 2 /\ pc = "L22") => InBounds(self.u, 1) /\ InBounds(self.v, 1)
    /\ pc = "done" =>
          /\ self.surface_area \in Int
          /\ self.edge_length \in Int

C6_Witness ==
    pc = "done" /\ args.n = 2 /\ args.w <= 0 /\ args.R <= 0

\* C8: the three compute methods are called once each, mesh, then
\* surface_area, then edge_length, all during construction; once the
\* object is built nothing changes its attributes, no compute method is
\* called again, and each plot() draws the stored mesh.
C8_ComputedOnce ==
    /\ [](pc = "done" => calls = <<"mesh", "surface_area", "edge_length">>)
    /\ [](\E k \in 0..3 : calls = SubSeq(<<"mesh", "surface_area", "edge_length">>, 1, k))
    /\ [][pc = "done" =>
            /\ pc' = "done"
            /\ self' = self
            /\ calls' = calls
            /\ plotted' = Append(plotted, self.mesh)
            /\ plots' = plots + 1]_vars

C8_Witness ==
    /\ pc = "done" /\ plots = MaxPlots /\ Len(plotted) = MaxPlots
    /\ self.n = MaxN /\ self.w > 0

\* C9 as the spec states it (for R > 0, w > 0): surface_area is the sum of all n*n area
\* elements times du*dv, with du = 2*pi/(n-1) and dv = w/(n-1), and the
\* total weight n*n*du*dv of the summed cells is the area 2*pi*w of the
\* parameter domain.
C9_RiemannWeight ==
    (AreaBuilt /\ self.R > 0 /\ self.w > 0) =>
        LET du == self.u[2] - self.u[1]
            dv == self.v[2] - self.v[1]
        IN  /\ self.surface_area
               = GridSum(AreaElements(self.R, self.U, self.V)) * du * dv
            /\ Len(self.U) * Len(self.U[1]) = self.n * self.n
            /\ (self.n - 1) * du = 2 * Pi
            /\ (self.n - 1) * dv = self.w
            /\ self.n * self.n * du * dv = 2 * Pi * self.w

\* The compute_edge_length loop has sampled both curves.
BothCurves == Len(curves) = 2 /\ self.n >= 2

\* The k-th point of a sampled curve <<x, y, z>>.
PointOf(curve, k) == << curve[1][k], curve[2][k], curve[3][k] >>

\* C10: the last point of the curve v = +w/2 is the first point of the
\* curve v = -w/2 and the last point of v = -w/2 is the first of v = +w/2,
\* so the 2(n-1) segments summed make one closed polyline.
C10_EdgeClosed ==
    BothCurves =>
        /\ PointOf(curves[1], self.n) = PointOf(curves[2], 1)
        /\ PointOf(curves[2], self.n) = PointOf(curves[1], 1)
        /\ Len(segment_lengths(curves[1])) + Len(segment_lengths(curves[2]))
           = 2 * (self.n - 1)

C10_Witness ==
    /\ BothCurves /\ pc = "done" /\ self.n = MaxN /\ self.w > 0 /\ self.R > 0
    /\ PointOf(curves[1], 1) # PointOf(curves[2], 1)

====
